---- MODULE Spec2Model ----
(***************************************************************************)
(* Model of the libc function summaries of tools/angr/plugins/hooks/libc.py *)
(*                                                                         *)
(* An execution state of the host engine is a record holding its memory,   *)
(* its heap cursor and its path constraints.  A summary call is one        *)
(* action: it runs to completion on one execution state.                   *)
(*                                                                         *)
(* Encoding of values.  A byte of memory is a number: 0..255 is a concrete *)
(* byte, a number above 255 is a symbolic byte (the number names which).   *)
(* A bitvector argument that the solver is asked about (eval, max) is a    *)
(* record [val |-> the set of its feasible values, bits |-> its width];    *)
(* a concrete bitvector has one feasible value.                            *)
(***************************************************************************)
EXTENDS Integers, Sequences, FiniteSets, TLC

VARIABLES arch, states, live,
          LOGIN_PTR, PASSWD_PTR, CHAR_PTRS, locale,
          bind_domainname, text_domainname, SIG_HNDLR,
          call, hist

vars == <<arch, states, live, LOGIN_PTR, PASSWD_PTR, CHAR_PTRS, locale,
          bind_domainname, text_domainname, SIG_HNDLR, call, hist>>

--------------------------------------------------------------------------
(* Bounds of the model *)

NumStates == 2
MaxCalls == 2
MaxOut == 3
MaxSize == 4
DstBase == 16
HeapBase == 4096
MaxSig == 2
MaxSigCalls == 3
MaxSingletonCalls == 3
MaxEnv == 2
MaxStrScan == 8
NameBase == 32
EnvBase == 64
EntryBase == 128
EntryStride == 8
MaxUnits == 2
MaxConvCalls == 2
LongUnits == 1030
NarrowCell == 8
WideCell == 16
NarrowSrc == 4096
WideBuf == 8192
NarrowBuf == 32768
HandlerBase == 64
MaxWideCalls == 1
WcsBase == 2048
AcceptBase == 4096

States == 1..NumStates

--------------------------------------------------------------------------
(* Program constants *)

WCHAR_BYTES == 4

\* libc_mbsrtowcs.max_dest_size and libc_wcsrtombs.max_dest_size
max_dest_size == 1024

\* libc_wcslen.max_null_index and libc_wcschr.max_null_index
max_null_index == 1024

\* state.libc.max_symbolic_strchr, as the host engine sets it
max_symbolic_strchr == 16

--------------------------------------------------------------------------
(* Values *)

Min(a, b) == IF a < b THEN a ELSE b

SetMax(S) == CHOOSE x \in S : \A y \in S : y <= x

\* claripy BVV(v, bits)
BVV(v, bits) == [val |-> {v}, bits |-> bits]

\* a bitvector whose feasible values are S
BVSet(S, bits) == [val |-> S, bits |-> bits]

IsSymbolicByte(b) == b > 255

ArchBits == arch.bytes * 8

Archs == [bytes : {4, 8}, memory_endness : {"Iend_LE", "Iend_BE"}]

--------------------------------------------------------------------------
(* The execution state: memory, heap, constraints.  log, mallocs and added *)
(* record what the running call has stored, allocated and constrained.     *)

EmptyMemory == [a \in {} |-> 0]

NewState(heapStart) ==
    [memory |-> EmptyMemory, heap_location |-> heapStart, allocated |-> {},
     constraints |-> <<>>, log |-> {}, mallocs |-> 0, added |-> <<>>]

\* the state as a call finds it: nothing stored, allocated or constrained yet
Begin(st) == [st EXCEPT !.log = {}, !.mallocs = 0, !.added = <<>>]

AddrRange(addr, n) == {addr + i : i \in 0..(n - 1)}

\* state.memory.store(addr, data) for a sequence of bytes in memory order
Store(st, addr, data) ==
    LET span == AddrRange(addr, Len(data))
    IN [st EXCEPT !.memory = [a \in span |-> data[a - addr + 1]] @@ @,
                  !.log = @ \cup span]

\* one byte of state.memory.load; memory never written reads as a
\* symbolic byte (256)
LoadByte(st, addr) ==
    IF addr \in DOMAIN st.memory THEN st.memory[addr] ELSE 256

\* state.memory.load(addr, n) as the sequence of bytes in memory order
Load(st, addr, n) == [i \in 1..n |-> LoadByte(st, addr + i - 1)]

\* state.add_constraints(c)
AddConstraint(st, c) ==
    [st EXCEPT !.constraints = Append(st.constraints, c),
               !.added = Append(st.added, c)]

--------------------------------------------------------------------------
(* libc_snprintf *)

\* claripy get_bytes(index, size): size bytes from byte index, leftmost first
get_bytes(bytes, index, size) == SubSeq(bytes, index + 1, index + size)

\* the mutant: truncation to the whole capacity
snprintf_limit_whole(out_str, size) ==
    IF Len(out_str) > size THEN get_bytes(out_str, 0, size) ELSE out_str

\* "enforce size limit"
snprintf_limit(out_str, size) ==
    IF Len(out_str) > size - 1 THEN get_bytes(out_str, 0, size - 1) ELSE out_str

\* the mutant: the capacity is never taken to be zero
snprintf_never_zero(size_eval) == FALSE

\* the early return's condition, on the solution eval picked for size
snprintf_zero(size_eval) == size_eval = 0

\* run(dst_ptr, size); out_str is what the format parser rendered and
\* size_eval the solution solver.eval(size) picked
snprintf_run(st, dst_ptr, size, size_eval, out_str) ==
    IF snprintf_zero(size_eval)
    THEN [state |-> st, ret |-> size]
    ELSE LET out == snprintf_limit(out_str, SetMax(size.val))
             st1 == Store(st, dst_ptr, out)
             st2 == Store(st1, dst_ptr + Len(out), <<0>>)
         IN [state |-> st2, ret |-> BVV(Len(out), ArchBits)]

--------------------------------------------------------------------------
(* libc__snprintf_chk *)

\* Python's max(a, b)
PyMax(a, b) == IF b > a THEN b ELSE a

\* "enforce size limit": slen is a machine word, so slen - 1 wraps to the
\* largest word when slen is 0 and no rendered length exceeds it
snprintf_chk_limit(out_str, slen) ==
    IF slen # 0 /\ Len(out_str) > slen - 1
    THEN get_bytes(out_str, 0, PyMax(slen - 1, 1))
    ELSE out_str

\* run(s, maxlen, flag, slen, fmt)
snprintf_chk_run(st, s, maxlen, flag, slen, out_str) ==
    LET out == snprintf_chk_limit(out_str, slen)
        st1 == Store(st, s, out)
        st2 == Store(st1, s + Len(out), <<0>>)
    IN [state |-> st2, ret |-> BVV(Len(out), ArchBits)]

--------------------------------------------------------------------------
(* Lazy singletons: getlogin, setlocale, bindtextdomain, textdomain,       *)
(* getpwnam.  The attribute a summary keeps its pointer in is {} for None  *)
(* and {p} once set; it belongs to the summary, not to an execution state. *)

\* inline_call(malloc, size): the heap cursor of the state, then advanced
malloc(st, size) ==
    [state |-> [st EXCEPT !.heap_location = @ + size,
                          !.allocated = @ \cup {st.heap_location},
                          !.mallocs = @ + 1],
     ret_expr |-> st.heap_location]

PtrOf(attr) == CHOOSE p \in attr : TRUE

\* the mutant: the cached pointer is not looked at
getlogin_run_uncached(st, ptr) ==
    LET m == malloc(st, 256)
    IN [state |-> Store(m.state, m.ret_expr + 255, <<0>>),
        ret |-> m.ret_expr, attr |-> {m.ret_expr}]

\* libc_getlogin.run(); ptr is self.LOGIN_PTR
getlogin_run(st, ptr) ==
    IF ptr = {}
    THEN LET m == malloc(st, 256)
         IN [state |-> Store(m.state, m.ret_expr + 255, <<0>>),
             ret |-> m.ret_expr, attr |-> {m.ret_expr}]
    ELSE [state |-> st, ret |-> PtrOf(ptr), attr |-> ptr]

\* libc_setlocale.run(category, locale); ptr is self.locale
setlocale_run(st, ptr) ==
    IF ptr = {}
    THEN LET m == malloc(st, 256)
         IN [state |-> Store(m.state, m.ret_expr + 255, <<0>>),
             ret |-> m.ret_expr, attr |-> {m.ret_expr}]
    ELSE [state |-> st, ret |-> PtrOf(ptr), attr |-> ptr]

\* libc_bindtextdomain.run(domainname, dirname); ptr is self.domainname
bindtextdomain_run(st, ptr) ==
    IF ptr = {}
    THEN LET m == malloc(st, 256)
         IN [state |-> Store(m.state, m.ret_expr + 255, <<0>>),
             ret |-> m.ret_expr, attr |-> {m.ret_expr}]
    ELSE [state |-> st, ret |-> PtrOf(ptr), attr |-> ptr]

\* libc_textdomain.run(domainname); ptr is self.domainname
textdomain_run(st, ptr) ==
    IF ptr = {}
    THEN LET m == malloc(st, 256)
         IN [state |-> Store(m.state, m.ret_expr + 255, <<0>>),
             ret |-> m.ret_expr, attr |-> {m.ret_expr}]
    ELSE [state |-> st, ret |-> PtrOf(ptr), attr |-> ptr]

\* byte k (0 = least significant) of a pointer below 2^32
ByteOf(p, k) == IF k > 3 THEN 0 ELSE (p \div (256 ^ k)) % 256

\* the n bytes of pointer p in memory order under the given endness
PtrBytes(p, n, endness) ==
    [i \in 1..n |-> IF endness = "Iend_LE" THEN ByteOf(p, i - 1) ELSE ByteOf(p, n - i)]

\* the number held by n concrete bytes in memory order under the given
\* endness (0 if a byte is symbolic)
BytesValue(bytes, endness) ==
    LET n == Len(bytes)
    IN IF \E i \in 1..n : IsSymbolicByte(bytes[i]) THEN 0
       ELSE LET RECURSIVE be(_, _)
                be(i, acc) == IF i > n THEN acc
                              ELSE be(i + 1, acc * 256 +
                                      (IF endness = "Iend_LE" THEN bytes[n + 1 - i] ELSE bytes[i]))
            IN be(1, 0)

\* store(ptr, value, size=ptr_size, endness=arch.memory_endness)
StorePtr(st, addr, p) ==
    Store(st, addr, PtrBytes(p, arch.bytes, arch.memory_endness))

\* the four bytes of solver.BVS(name, 32), stored in big-endian order;
\* id numbers the symbol
SymBytes32(id) == [i \in 1..4 |-> 256 + 4 * id + i]

CharPtrNames == <<"pw_name", "pw_paswd", "pw_gecos", "pw_dir", "pw_shell">>

\* "allocate strings": the loop over CHAR_PTRS, from its i-th key on
RECURSIVE getpwnam_strings(_, _, _)
getpwnam_strings(st, char_ptrs, i) ==
    IF i > Len(CharPtrNames) THEN [state |-> st, char_ptrs |-> char_ptrs]
    ELSE LET m == malloc(st, 4096)
         IN getpwnam_strings(Store(m.state, m.ret_expr + 4095, <<0>>),
                             [char_ptrs EXCEPT ![CharPtrNames[i]] = {m.ret_expr}],
                             i + 1)

\* "fill in struct values"
getpwnam_fill(st, passwd, char_ptrs) ==
    LET ptr_size == arch.bytes
        s1 == StorePtr(st, passwd, PtrOf(char_ptrs["pw_name"]))
        s2 == StorePtr(s1, passwd + ptr_size, PtrOf(char_ptrs["pw_paswd"]))
        p2 == passwd + 2 * ptr_size
        s3 == Store(s2, p2, SymBytes32(1))
        s4 == Store(s3, p2 + 4, SymBytes32(2))
        p4 == p2 + 8
        s5 == StorePtr(s4, p4, PtrOf(char_ptrs["pw_gecos"]))
        s6 == StorePtr(s5, p4 + ptr_size, PtrOf(char_ptrs["pw_dir"]))
        s7 == StorePtr(s6, p4 + 2 * ptr_size, PtrOf(char_ptrs["pw_shell"]))
    IN s7

passwd_size == (arch.bytes * Len(CharPtrNames)) + 8

\* libc_getpwnam.run(name); ptr is self.PASSWD_PTR, char_ptrs self.CHAR_PTRS
getpwnam_run(st, ptr, char_ptrs) ==
    IF ptr = {}
    THEN LET a == getpwnam_strings(st, char_ptrs, 1)
             m == malloc(a.state, passwd_size)
         IN [state |-> getpwnam_fill(m.state, m.ret_expr, a.char_ptrs),
             ret |-> m.ret_expr, attr |-> {m.ret_expr}, char_ptrs |-> a.char_ptrs]
    ELSE [state |-> st, ret |-> PtrOf(ptr), attr |-> ptr, char_ptrs |-> char_ptrs]

--------------------------------------------------------------------------
(* libc_signal *)

\* the mutant: the table keeps the handler it had
signal_run_keep(table, signum_int, handler) ==
    LET t1 == IF signum_int \notin DOMAIN table
              THEN [n \in (DOMAIN table) \cup {signum_int} |->
                      IF n = signum_int THEN BVV(-1, ArchBits) ELSE table[n]]
              ELSE table
    IN [table |-> t1, ret |-> t1[signum_int]]

\* run(signum, handler); table is SIG_HNDLR, signum_int solver.eval(signum).
\* BVV(-1, bits) is the all-ones word, written here as -1 at that width
signal_run(table, signum_int, handler) ==
    LET t1 == IF signum_int \notin DOMAIN table
              THEN [n \in (DOMAIN table) \cup {signum_int} |->
                      IF n = signum_int THEN BVV(-1, ArchBits) ELSE table[n]]
              ELSE table
        old == t1[signum_int]
    IN [table |-> [t1 EXCEPT ![signum_int] = handler], ret |-> old]

--------------------------------------------------------------------------
(* libc_getenv *)

\* the lengths inline_call(strlen, ptr).ret_expr can take: the offsets, from
\* i on, of a byte that can be null with no byte before it that must be
\* null; the scan is bounded
RECURSIVE strlen_from(_, _, _)
strlen_from(st, ptr, i) ==
    LET b == LoadByte(st, ptr + i)
    IN IF b = 0 \/ i >= MaxStrScan THEN {i}
       ELSE IF IsSymbolicByte(b) THEN {i} \cup strlen_from(st, ptr, i + 1)
       ELSE strlen_from(st, ptr, i + 1)

strlen(st, ptr) == BVSet(strlen_from(st, ptr, 0), ArchBits)

\* state.memory.load(ptr, strlen.ret_expr): the bytes up to the largest length
LoadString(st, ptr, len) == Load(st, ptr, SetMax(len.val))

\* solver.symbolic(value)
symbolic(bytes) == \E i \in 1..Len(bytes) : IsSymbolicByte(bytes[i])

\* Python's str.split("=")[0]: the text before the first "=" (61), or all of
\* it when there is none
RECURSIVE split_first(_, _)
split_first(str, i) ==
    IF i > Len(str) THEN str
    ELSE IF str[i] = 61 THEN SubSeq(str, 1, i - 1)
    ELSE split_first(str, i + 1)

\* the mutant: the pointer stops at the "="
getenv_match_at_equals(envp, key) == envp + Len(key)

\* the value returned on a concrete match
getenv_match(envp, key) == envp + Len(key) + 1

\* whether the entry is compared as a plain string: neither side symbolic
getenv_resolves(name_sym, envp_str) ==
    ~(name_sym \/ symbolic(envp_str))

\* the loop of run from the list slot at envpp on.  ret_expr is the sequence
\* of the disjuncts of Or(...): [zero |-> TRUE] for ret_val == 0 and
\* [lo |-> envp, len |-> strlen] for And(ret_val > envp, ret_val < envp + strlen).
\* examined counts the entries read so far.
RECURSIVE getenv_walk(_, _, _, _, _, _)
getenv_walk(st, name_sym, name_str, envpp, ret_expr, examined) ==
    LET envp == BytesValue(Load(st, envpp, arch.bytes), arch.memory_endness)
    IN IF envp = 0 \/ examined > MaxEnv
       THEN [state |-> AddConstraint(st, [or |-> ret_expr]),
             ret |-> [sym |-> "getenv", bits |-> ArchBits],
             trace |-> [early |-> FALSE, examined |-> examined, name_sym |-> name_sym,
                        widened |-> Len(ret_expr) - 1]]
       ELSE LET envp_strlen == strlen(st, envp)
                envp_str == LoadString(st, envp, envp_strlen)
            IN IF ~getenv_resolves(name_sym, envp_str)
               THEN getenv_walk(st, name_sym, name_str, envpp + arch.bytes,
                                Append(ret_expr, [zero |-> FALSE, lo |-> envp,
                                                  len |-> envp_strlen.val]),
                                examined + 1)
               ELSE LET key == split_first(envp_str, 1)
                    IN IF key = name_str
                       THEN [state |-> st,
                             ret |-> BVV(getenv_match(envp, key), ArchBits),
                             trace |-> [early |-> TRUE, examined |-> examined + 1,
                                        name_sym |-> name_sym,
                                        widened |-> Len(ret_expr) - 1]]
                       ELSE getenv_walk(st, name_sym, name_str, envpp + arch.bytes,
                                        ret_expr, examined + 1)

\* run(name); environ is state.posix.environ
getenv_run(st, name, environ) ==
    LET name_strlen == strlen(st, name)
        name_str == LoadString(st, name, name_strlen)
    IN getenv_walk(st, symbolic(name_str), name_str, environ,
                   <<[zero |-> TRUE, lo |-> 0, len |-> {}]>>, 0)

--------------------------------------------------------------------------
(* libc_mbsrtowcs and libc_wcsrtombs *)

\* solver.is_true(unit < 0x80) for a concrete or symbolic unit
is_ascii(sym, value) == ~sym /\ value < 128

\* solver.is_true(unit == 0)
is_null(sym, value) == ~sym /\ value = 0

\* the bytes in memory of a 32-bit value below 2^32 stored with an endness
WideBytes(value, endness) == PtrBytes(value, WCHAR_BYTES, endness)

\* the bytes of solver.BVS('mbsrtowcs_%d' % offset, 32), one symbol a byte
mbsrtowcs_bvs(offset) == [i \in 1..WCHAR_BYTES |-> 10000 + WCHAR_BYTES * offset + i]

\* the byte of solver.BVS('wcsrtombs_%d' % offset, 8)
wcsrtombs_bvs(offset) == <<20000 + offset>>

\* the body of the loop of mbsrtowcs up to the null test: the stores made
\* for the byte read at offset
mbsrtowcs_convert(st, dest, offset, next_byte) ==
    IF is_ascii(IsSymbolicByte(next_byte), next_byte)
    THEN IF dest # 0
         THEN Store(st, dest + (offset * WCHAR_BYTES),
                    WideBytes(next_byte, arch.memory_endness))
         ELSE st
    ELSE Store(st, dest + (offset * WCHAR_BYTES), mbsrtowcs_bvs(offset))

\* one iteration of the loop of mbsrtowcs; l holds the state, ret_val (the
\* bytes parsed) and whether the loop has hit its break
mbsrtowcs_iter(l, dest, src_base, offset) ==
    LET next_byte == LoadByte(l.state, src_base + offset)
    IN [state |-> mbsrtowcs_convert(l.state, dest, offset, next_byte),
        ret_val |-> l.ret_val + 1,
        break |-> is_null(IsSymbolicByte(next_byte), next_byte)]

\* "for offset in range(len_val)", here for the offsets lo .. hi - 1 in
\* order, split in halves to keep the nesting shallow
RECURSIVE mbsrtowcs_loop(_, _, _, _, _)
mbsrtowcs_loop(l, dest, src_base, lo, hi) ==
    IF l.break \/ lo >= hi THEN l
    ELSE IF hi = lo + 1 THEN mbsrtowcs_iter(l, dest, src_base, lo)
    ELSE LET mid == (lo + hi) \div 2
             first == mbsrtowcs_loop(l, dest, src_base, lo, mid)
         IN mbsrtowcs_loop(first, dest, src_base, mid, hi)

\* the mutant: the cursor advances by wide characters
mbsrtowcs_src_val_wide(src_base, ret_val) == src_base + (ret_val * WCHAR_BYTES)

\* "update src"
mbsrtowcs_src_val(src_base, ret_val) == src_base + ret_val

\* the number of characters to parse
conv_len_val(len) == Min(max_dest_size, SetMax(len.val))

\* libc_mbsrtowcs.run(dest, src, len, ps)
mbsrtowcs_run(st, dest, src, len, ps) ==
    LET src_base == BytesValue(Load(st, src, arch.bytes), arch.memory_endness)
        l == mbsrtowcs_loop([state |-> st, ret_val |-> 0, break |-> FALSE],
                            dest, src_base, 0, conv_len_val(len))
    IN [state |-> StorePtr(l.state, src, mbsrtowcs_src_val(src_base, l.ret_val)),
        ret |-> BVV(l.ret_val, ArchBits)]

\* the mutant: the byte kept of an ASCII wide character is its highest
wcsrtombs_convert_high(st, dest, offset, next_wc) ==
    IF is_ascii(symbolic(next_wc), BytesValue(next_wc, arch.memory_endness))
    THEN IF dest # 0
         THEN Store(st, dest + offset,
                    <<get_bytes(WideBytes(BytesValue(next_wc, arch.memory_endness),
                                          "Iend_BE"),
                                0, 1)[1]>>)
         ELSE st
    ELSE Store(st, dest + offset, wcsrtombs_bvs(offset))

\* the body of the loop of wcsrtombs up to the null test: the stores made
\* for the wide character read at offset (its four bytes in memory order)
wcsrtombs_convert(st, dest, offset, next_wc) ==
    IF is_ascii(symbolic(next_wc), BytesValue(next_wc, arch.memory_endness))
    THEN IF dest # 0
         THEN Store(st, dest + offset,
                    <<get_bytes(WideBytes(BytesValue(next_wc, arch.memory_endness),
                                          "Iend_BE"),
                                WCHAR_BYTES - 1, 1)[1]>>)
         ELSE st
    ELSE Store(st, dest + offset, wcsrtombs_bvs(offset))

\* one iteration of the loop of wcsrtombs
wcsrtombs_iter(l, dest, src_base, offset) ==
    LET next_wc == Load(l.state, src_base + (offset * WCHAR_BYTES), WCHAR_BYTES)
    IN [state |-> wcsrtombs_convert(l.state, dest, offset, next_wc),
        ret_val |-> l.ret_val + 1,
        break |-> is_null(symbolic(next_wc), BytesValue(next_wc, arch.memory_endness))]

\* "for offset in range(len_val)", for the offsets lo .. hi - 1 in order
RECURSIVE wcsrtombs_loop(_, _, _, _, _)
wcsrtombs_loop(l, dest, src_base, lo, hi) ==
    IF l.break \/ lo >= hi THEN l
    ELSE IF hi = lo + 1 THEN wcsrtombs_iter(l, dest, src_base, lo)
    ELSE LET mid == (lo + hi) \div 2
             first == wcsrtombs_loop(l, dest, src_base, lo, mid)
         IN wcsrtombs_loop(first, dest, src_base, mid, hi)

\* "update src"
wcsrtombs_src_val(src_base, ret_val) == src_base + (ret_val * WCHAR_BYTES)

\* libc_wcsrtombs.run(dest, src, len, ps)
wcsrtombs_run(st, dest, src, len, ps) ==
    LET src_base == BytesValue(Load(st, src, arch.bytes), arch.memory_endness)
        l == wcsrtombs_loop([state |-> st, ret_val |-> 0, break |-> FALSE],
                            dest, src_base, 0, conv_len_val(len))
    IN [state |-> StorePtr(l.state, src, wcsrtombs_src_val(src_base, l.ret_val)),
        ret |-> BVV(l.ret_val, ArchBits)]

--------------------------------------------------------------------------
(* Wide strings: libc_wcslen, libc_wcschr, libc_wcspbrk, libc_swprintf *)

SetMin(S) == CHOOSE x \in S : \A y \in S : x <= y

\* solver.symbolic(bv) for a bitvector given by its feasible values
bv_symbolic(bv) == Cardinality(bv.val) > 1

\* the comparison memory.find makes of the bytes e of memory with the bytes
\* of the pattern: "yes" if they are equal concrete bytes, "maybe" if a
\* symbolic byte leaves it open, else "no"
find_compare(e, what) ==
    IF symbolic(e) \/ symbolic(what)
    THEN IF \A j \in 1..Len(what) :
               IsSymbolicByte(e[j]) \/ IsSymbolicByte(what[j]) \/ e[j] = what[j]
         THEN "maybe" ELSE "no"
    ELSE IF e = what THEN "yes" ELSE "no"

\* state.memory.find(start, what, max_search, max_symbolic_bytes, default,
\* char_size) for a pattern given by its bytes, leftmost first: the offsets
\* 0, char_size, 2 * char_size, ... that leave room for the pattern within
\* max_search bytes are compared in order with the bytes of memory there,
\* up to the first that is equal and while fewer than max_symbolic_bytes
\* symbolic elements were passed.  default is {} for None.  r holds the
\* addresses the result can take, c the constraints and i the indices (in
\* characters) of the offsets that can match.
find(st, start, what, max_search, max_symbolic_bytes, default, char_size) ==
    LET seek_size == Len(what)
        Pos == {o \in 0..(max_search - seek_size) : o % char_size = 0}
        hits == {o \in Pos : find_compare(Load(st, start + o, seek_size), what) = "yes"}
        first == IF hits = {} THEN max_search ELSE SetMin(hits)
        sym == {o \in Pos : o < first /\ symbolic(Load(st, start + o, seek_size))}
        examined == {o \in Pos : /\ o <= first
                                 /\ Cardinality({p \in sym : p < o}) < max_symbolic_bytes}
        cases == {o \in examined :
                    find_compare(Load(st, start + o, seek_size), what) # "no"}
        found == first \in examined
    IN [r |-> BVSet({start + o : o \in cases}
                      \cup (IF found THEN {} ELSE default), ArchBits),
        c |-> IF default = {} /\ ~found
              THEN <<[any_of |-> {start + o : o \in cases}]>> ELSE <<>>,
        i |-> {o \div char_size : o \in cases}]

\* state.add_constraints(*c) for the constraints of a find
AddConstraints(st, c) == IF c = <<>> THEN st ELSE AddConstraint(st, c[1])

\* libc_wcslen.run(s)
wcslen_run(st, s) ==
    LET null == WideBytes(0, "Iend_BE")
        f == find(st, s, null, max_null_index, 128, {}, WCHAR_BYTES)
    IN [state |-> AddConstraints(st, f.c),
        ret_expr |-> BVSet({(a - s) \div WCHAR_BYTES : a \in f.r.val}, ArchBits)]

\* the bytes, leftmost first, of the bitvector wc as it is handed to
\* memory.find; a symbolic wc is one symbol a byte
bv_bytes(wc) ==
    IF bv_symbolic(wc) THEN [i \in 1..(wc.bits \div 8) |-> 40000 + i]
    ELSE PtrBytes(SetMax(wc.val), wc.bits \div 8, "Iend_BE")

\* the constraint If(a != 0, a - wcs <= wcs_len * WCHAR_BYTES, True), added
\* unless it is true of concrete values
wcschr_bound(st, a, wcs, wcs_len) ==
    IF /\ ~bv_symbolic(a)
       /\ ~bv_symbolic(wcs_len)
       /\ (a.val = {0} \/ SetMax(a.val) - wcs <= SetMax(wcs_len.val) * WCHAR_BYTES)
    THEN st
    ELSE AddConstraint(st, [if_nonzero |-> a.val, minus |-> wcs,
                            at_most |-> {l * WCHAR_BYTES : l \in wcs_len.val}])

\* libc_wcschr.run(wcs, wc); chunk_size only sets how many bytes find reads
\* at a time
wcschr_run(st, wcs, wc) ==
    LET wcs_len == wcslen_run(st, wcs)
        f == IF bv_symbolic(wcs_len.ret_expr)
             THEN find(wcs_len.state, wcs, bv_bytes(wc), max_null_index,
                       Min((SetMax(wcs_len.ret_expr.val) * WCHAR_BYTES) + WCHAR_BYTES,
                           max_symbolic_strchr),
                       {0}, WCHAR_BYTES)
             ELSE LET max_search == (SetMax(wcs_len.ret_expr.val) * WCHAR_BYTES)
                                      + WCHAR_BYTES
                  IN find(wcs_len.state, wcs, bv_bytes(wc), max_search, max_search,
                          {0}, WCHAR_BYTES)
        multi == IF Cardinality(f.i) > 1 THEN AddConstraints(wcs_len.state, f.c)
                 ELSE wcs_len.state
    IN [state |-> wcschr_bound(multi, f.r, wcs, wcs_len.ret_expr),
        ret |-> f.r]

\* solver.is_true(And(a != 0, a < best_match[0])) on the feasible values
wcspbrk_better(a, best) ==
    \A x \in a.val : x # 0 /\ \A y \in best.val : x < y

\* the loop of wcspbrk from index idx on; best_match is {} for None, else
\* {the result of the find kept so far}
RECURSIVE wcspbrk_loop(_, _, _, _, _, _)
wcspbrk_loop(st, wcs, accept, idx, stop, best_match) ==
    IF idx >= stop THEN best_match
    ELSE LET acc == Load(st, accept + (WCHAR_BYTES * idx), WCHAR_BYTES)
         IN IF ~symbolic(acc) /\ BytesValue(acc, "Iend_BE") = 0 THEN best_match
            ELSE LET f == find(st, wcs, acc, max_null_index,
                               max_symbolic_strchr * WCHAR_BYTES, {0}, WCHAR_BYTES)
                 IN wcspbrk_loop(st, wcs, accept, idx + 1, stop,
                                 IF best_match = {} THEN {f}
                                 ELSE IF wcspbrk_better(f.r, (CHOOSE b \in best_match : TRUE).r)
                                      THEN {f}
                                      ELSE best_match)

\* libc_wcspbrk.run(wcs, accept)
wcspbrk_run(st, wcs, accept) ==
    LET wcs_len == wcslen_run(st, wcs)
        acc_len == wcslen_run(wcs_len.state, accept)
        best_match == wcspbrk_loop(acc_len.state, wcs, accept, 0,
                                   SetMax(acc_len.ret_expr.val), {})
    IN IF best_match = {} THEN [state |-> acc_len.state, ret |-> BVV(0, ArchBits)]
       ELSE LET b == CHOOSE m \in best_match : TRUE
            IN [state |-> AddConstraints(acc_len.state, b.c), ret |-> b.r]

\* the bytes of solver.BVS('swprintf_%d' % offset, 32), one symbol a byte
swprintf_bvs(offset) == [i \in 1..WCHAR_BYTES |-> 30000 + WCHAR_BYTES * offset + i]

\* "for offset in range(len_val)" from offset on
RECURSIVE swprintf_loop(_, _, _, _)
swprintf_loop(st, wcs_ptr, offset, len_val) ==
    IF offset >= len_val THEN st
    ELSE swprintf_loop(Store(st, wcs_ptr + (offset * WCHAR_BYTES), swprintf_bvs(offset)),
                       wcs_ptr, offset + 1, len_val)

\* where the final null character is stored
swprintf_null_addr(wcs_ptr, len_val) == wcs_ptr + ((len_val - 1) * WCHAR_BYTES)

\* libc_swprintf.run(wcs_ptr, maxlen, format)
swprintf_run(st, wcs_ptr, maxlen, format) ==
    LET len_val == SetMax(maxlen.val)
        filled == swprintf_loop(st, wcs_ptr, 0, len_val)
        nulled == Store(filled, swprintf_null_addr(wcs_ptr, len_val),
                        WideBytes(0, "Iend_BE"))
    IN [state |-> AddConstraint(nulled, [ret |-> "swprintf_ret", at_most |-> len_val]),
        ret |-> [sym |-> "swprintf_ret", bits |-> ArchBits]]

--------------------------------------------------------------------------
(* Calls *)

Singletons == {"getlogin", "setlocale", "bindtextdomain", "textdomain", "getpwnam"}

\* the last call: its summary, execution state, arguments and result, and
\* the execution state before and after it
NoCall == [proc |-> "none", st |-> 1, args |-> <<>>, ret |-> BVV(0, 0),
           before |-> NewState(0), after |-> NewState(0)]

Called(proc, s, args, before, r) ==
    [proc |-> proc, st |-> s, args |-> args, ret |-> r.ret,
     before |-> before, after |-> r.state]

\* the history of the run: the number of calls made; per singleton summary
\* and execution state the pointer its first call there returned ({} before
\* it) and whether the last call was a later one; per execution state the
\* bytes of the passwd record as the first getpwnam call there left them;
\* the key and the entries the environment was built from; the signal calls
\* made and the table before the last of them; the converter call made
\* before the last one (its name, arguments, result and source base); the
\* wide string and the accept set the memory was built from
NoHist == [ncalls |-> 0,
           wide |-> [wcs |-> <<>>, accept |-> <<>>],
           prev |-> [proc |-> "none", args |-> <<>>, ret |-> BVV(0, 0), base |-> 0],
           first |-> [p \in Singletons |-> [s \in States |-> {}]],
           later |-> FALSE,
           record |-> [s \in States |-> <<>>],
           env |-> [name |-> <<>>, entries |-> <<>>],
           sigLog |-> <<>>,
           sigBefore |-> [n \in {} |-> BVV(0, 0)]]

UNCHANGED_instances ==
    UNCHANGED <<LOGIN_PTR, PASSWD_PTR, CHAR_PTRS, locale, bind_domainname,
                text_domainname, SIG_HNDLR>>

InitInstances ==
    /\ LOGIN_PTR = {}
    /\ PASSWD_PTR = {}
    /\ CHAR_PTRS = [f \in {"pw_name", "pw_paswd", "pw_gecos", "pw_dir", "pw_shell"} |-> {}]
    /\ locale = {}
    /\ bind_domainname = {}
    /\ text_domainname = {}
    /\ SIG_HNDLR = [n \in {} |-> BVV(0, 0)]

--------------------------------------------------------------------------
(* Bounded formatted output: snprintf and __snprintf_chk on one state *)

\* rendered outputs: byte i is the i-th letter, or symbolic (an argument
\* rendered from a symbolic value)
OutStrs == {[i \in 1..n |-> 96 + i] : n \in 0..MaxOut}
             \cup {[i \in 1..n |-> 256 + i] : n \in 1..MaxOut}

SizeArgs == {BVV(n, ArchBits) : n \in 0..MaxSize}
              \cup {BVSet({0, MaxSize}, ArchBits), BVSet({1, 2}, ArchBits)}

InitFmt ==
    /\ arch \in Archs
    /\ live = {1}
    /\ states = [s \in States |-> NewState(0)]
    /\ InitInstances
    /\ call = NoCall
    /\ hist = NoHist

Snprintf(s) ==
    \E size \in SizeArgs, out_str \in OutStrs :
      \E size_eval \in size.val :
        LET before == Begin(states[s])
            r == snprintf_run(before, DstBase, size, size_eval, out_str)
        IN /\ hist.ncalls < MaxCalls
           /\ states' = [states EXCEPT ![s] = r.state]
           /\ call' = Called("snprintf", s,
                             [dst_ptr |-> DstBase, size |-> size, out_str |-> out_str],
                             before, r)
           /\ hist' = [hist EXCEPT !.ncalls = @ + 1]
           /\ UNCHANGED <<arch, live>>
           /\ UNCHANGED_instances

SnprintfChk(s) ==
    \E maxlen \in {0, MaxSize}, slen \in 0..MaxSize, out_str \in OutStrs :
        LET before == Begin(states[s])
            r == snprintf_chk_run(before, DstBase, maxlen, 1, slen, out_str)
        IN /\ hist.ncalls < MaxCalls
           /\ states' = [states EXCEPT ![s] = r.state]
           /\ call' = Called("__snprintf_chk", s,
                             [s |-> DstBase, maxlen |-> maxlen, slen |-> slen,
                              out_str |-> out_str],
                             before, r)
           /\ hist' = [hist EXCEPT !.ncalls = @ + 1]
           /\ UNCHANGED <<arch, live>>
           /\ UNCHANGED_instances

NextFmt ==
    \/ \E s \in live : Snprintf(s)
    \/ \E s \in live : SnprintfChk(s)

SpecFmt == InitFmt /\ [][NextFmt]_vars

--------------------------------------------------------------------------
(* Lazy singletons on forking execution states *)

InitSingleton ==
    /\ arch \in Archs
    /\ live = {1}
    /\ states = [s \in States |-> NewState(HeapBase)]
    /\ InitInstances
    /\ call = NoCall
    /\ hist = NoHist

\* the host engine forks execution state s: t starts as a copy of it
Fork(s, t) ==
    /\ t \notin live
    /\ live' = live \cup {t}
    /\ states' = [states EXCEPT ![t] = states[s]]
    /\ hist' = [hist EXCEPT !.first = [p \in Singletons |->
                                        [hist.first[p] EXCEPT ![t] = hist.first[p][s]]],
                            !.record[t] = hist.record[s]]
    /\ UNCHANGED <<arch, call>>
    /\ UNCHANGED_instances

\* the bookkeeping of a singleton call that returned ret in state s
SingletonCalled(proc, s, before, r) ==
    /\ hist.ncalls < MaxSingletonCalls
    /\ states' = [states EXCEPT ![s] = r.state]
    /\ call' = Called(proc, s, <<>>, before, r)
    /\ hist' = [hist EXCEPT !.ncalls = @ + 1,
                            !.later = (hist.first[proc][s] # {}),
                            !.first[proc][s] = IF @ = {} THEN {r.ret} ELSE @,
                            !.record[s] =
                                IF proc = "getpwnam" /\ hist.first[proc][s] = {}
                                THEN Load(r.state, r.ret, passwd_size) ELSE @]
    /\ UNCHANGED <<arch, live>>

Getlogin(s) ==
    LET before == Begin(states[s])
        r == getlogin_run(before, LOGIN_PTR)
    IN /\ SingletonCalled("getlogin", s, before, r)
       /\ LOGIN_PTR' = r.attr
       /\ UNCHANGED <<PASSWD_PTR, CHAR_PTRS, locale, bind_domainname,
                       text_domainname, SIG_HNDLR>>

Setlocale(s) ==
    LET before == Begin(states[s])
        r == setlocale_run(before, locale)
    IN /\ SingletonCalled("setlocale", s, before, r)
       /\ locale' = r.attr
       /\ UNCHANGED <<LOGIN_PTR, PASSWD_PTR, CHAR_PTRS, bind_domainname,
                       text_domainname, SIG_HNDLR>>

Bindtextdomain(s) ==
    LET before == Begin(states[s])
        r == bindtextdomain_run(before, bind_domainname)
    IN /\ SingletonCalled("bindtextdomain", s, before, r)
       /\ bind_domainname' = r.attr
       /\ UNCHANGED <<LOGIN_PTR, PASSWD_PTR, CHAR_PTRS, locale,
                       text_domainname, SIG_HNDLR>>

Textdomain(s) ==
    LET before == Begin(states[s])
        r == textdomain_run(before, text_domainname)
    IN /\ SingletonCalled("textdomain", s, before, r)
       /\ text_domainname' = r.attr
       /\ UNCHANGED <<LOGIN_PTR, PASSWD_PTR, CHAR_PTRS, locale,
                       bind_domainname, SIG_HNDLR>>

Getpwnam(s) ==
    LET before == Begin(states[s])
        r == getpwnam_run(before, PASSWD_PTR, CHAR_PTRS)
    IN /\ SingletonCalled("getpwnam", s, before, r)
       /\ PASSWD_PTR' = r.attr
       /\ CHAR_PTRS' = r.char_ptrs
       /\ UNCHANGED <<LOGIN_PTR, locale, bind_domainname,
                       text_domainname, SIG_HNDLR>>

NextSingleton ==
    \/ \E s \in live, t \in States : Fork(s, t)
    \/ \E s \in live : Getlogin(s)
    \/ \E s \in live : Setlocale(s)
    \/ \E s \in live : Bindtextdomain(s)
    \/ \E s \in live : Textdomain(s)
    \/ \E s \in live : Getpwnam(s)

SpecSingleton == InitSingleton /\ [][NextSingleton]_vars

--------------------------------------------------------------------------
(* The signal table *)

Signums == 1..MaxSig

Handlers == {BVV(HandlerBase + 4 * i, ArchBits) : i \in 0..1}

InitSignal ==
    /\ arch \in Archs
    /\ live = {1}
    /\ states = [s \in States |-> NewState(HeapBase)]
    /\ InitInstances
    /\ call = NoCall
    /\ hist = NoHist

Signal(s) ==
    \E signum \in Signums, handler \in Handlers :
        LET r == signal_run(SIG_HNDLR, signum, handler)
        IN /\ hist.ncalls < MaxSigCalls
           /\ SIG_HNDLR' = r.table
           /\ call' = Called("signal", s, [signum |-> signum, handler |-> handler],
                             Begin(states[s]), [state |-> Begin(states[s]), ret |-> r.ret])
           /\ hist' = [hist EXCEPT !.ncalls = @ + 1,
                                   !.sigLog = Append(@, <<signum, handler>>),
                                   !.sigBefore = SIG_HNDLR]
           /\ states' = [states EXCEPT ![s] = Begin(states[s])]
           /\ UNCHANGED <<arch, live, LOGIN_PTR, PASSWD_PTR, CHAR_PTRS, locale,
                           bind_domainname, text_domainname>>

NextSignal == \E s \in live : Signal(s)

SpecSignal == InitSignal /\ [][NextSignal]_vars

--------------------------------------------------------------------------
(* Environment lookup: one state whose memory holds a key and a list *)

\* "A", "B" and a key of one symbolic byte
EnvNames == {<<65>>, <<66>>, <<300>>}

\* "A=x", "B=y", "A=z", "A=" (empty value), "AB=x", "A==" , an entry of two
\* symbolic bytes and "A=" followed by a symbolic byte
EnvEntries == {<<65, 61, 120>>, <<66, 61, 121>>, <<65, 61, 122>>, <<65, 61>>,
               <<65, 66, 61, 120>>, <<65, 61, 61>>, <<301, 302>>, <<65, 61, 303>>}

EnvLists == UNION {[1..n -> EnvEntries] : n \in 0..MaxEnv}

EntryAddr(i) == EntryBase + (i - 1) * EntryStride

\* the memory holding the entries from the i-th on, each null-terminated
\* and pointed to by its slot of the list, and the list's closing null
RECURSIVE StoreEnv(_, _, _)
StoreEnv(st, entries, i) ==
    IF i > Len(entries) THEN StorePtr(st, EnvBase + (i - 1) * arch.bytes, 0)
    ELSE StoreEnv(Store(StorePtr(st, EnvBase + (i - 1) * arch.bytes, EntryAddr(i)),
                        EntryAddr(i), Append(entries[i], 0)),
                  entries, i + 1)

InitEnv ==
    /\ arch \in Archs
    /\ live = {1}
    /\ \E name \in EnvNames, entries \in EnvLists :
         /\ states = [s \in States |->
                        Begin(StoreEnv(Store(NewState(HeapBase), NameBase, Append(name, 0)),
                                       entries, 1))]
         /\ hist = [NoHist EXCEPT !.env = [name |-> name, entries |-> entries]]
    /\ InitInstances
    /\ call = NoCall

Getenv(s) ==
    LET before == Begin(states[s])
        r == getenv_run(before, NameBase, EnvBase)
    IN /\ hist.ncalls < MaxCalls
       /\ states' = [states EXCEPT ![s] = r.state]
       /\ call' = Called("getenv", s, [name |-> NameBase, trace |-> r.trace], before, r)
       /\ hist' = [hist EXCEPT !.ncalls = @ + 1]
       /\ UNCHANGED <<arch, live>>
       /\ UNCHANGED_instances

NextEnv == \E s \in live : Getenv(s)

SpecEnv == InitEnv /\ [][NextEnv]_vars

--------------------------------------------------------------------------
(* Encoding converters: one state whose memory holds a narrow or a wide    *)
(* source, and the cells holding the pointers to them                      *)

\* source units: "A", 0x80, a symbolic unit, and (wide only) 0x141
NarrowUnits == {65, 128, 300}

WideUnits == {65, 128, 300, 321}

\* what follows the units of a source: its null, a "B" and nulls enough for
\* every later call to stop at one
SourceTail == <<0, 66>> \o [i \in 1..(MaxConvCalls + 1) |-> 0]

LongSource == [i \in 1..LongUnits |-> 65]

\* the units of a source: up to MaxUnits units and the tail, or LongUnits
\* times "A" with no null
NarrowSources == {s \o SourceTail : s \in UNION {[1..n -> NarrowUnits] : n \in 0..MaxUnits}}
                   \cup {LongSource}

WideSources == {s \o SourceTail : s \in UNION {[1..n -> WideUnits] : n \in 0..MaxUnits}}
                 \cup {LongSource}

\* the four bytes in memory of a wide unit
UnitBytes(u) ==
    IF u = 300 THEN [i \in 1..WCHAR_BYTES |-> 300 + i]
    ELSE WideBytes(u, arch.memory_endness)

NarrowImage(units) == [a \in AddrRange(NarrowSrc, Len(units)) |-> units[a - NarrowSrc + 1]]

WideImage(units) ==
    [a \in AddrRange(WideBuf, Len(units) * WCHAR_BYTES) |->
        UnitBytes(units[((a - WideBuf) \div WCHAR_BYTES) + 1])[((a - WideBuf) % WCHAR_BYTES) + 1]]

ConvState(image) ==
    StorePtr(StorePtr([NewState(HeapBase) EXCEPT !.memory = image],
                      NarrowCell, NarrowSrc),
             WideCell, WideBuf)

\* either source is drawn while the other is "A" and the tail
InitConv ==
    /\ arch \in Archs
    /\ live = {1}
    /\ \E image \in {NarrowImage(u) @@ WideImage(<<65>> \o SourceTail) : u \in NarrowSources}
                       \cup {NarrowImage(<<65>> \o SourceTail) @@ WideImage(u) : u \in WideSources} :
         states = [s \in States |-> Begin(ConvState(image))]
    /\ hist = NoHist
    /\ InitInstances
    /\ call = NoCall

\* the len arguments: 1, a symbolic length of 0 or MaxUnits + 1, and, for
\* the first call, a length above max_dest_size
ConvLens == {BVV(1, ArchBits), BVSet({0, MaxUnits + 1}, ArchBits)}
              \cup (IF hist.ncalls = 0 THEN {BVV(2 * max_dest_size, ArchBits)} ELSE {})

ConvCalled(proc, s, args, before, r) ==
    /\ hist.ncalls < MaxConvCalls
    /\ states' = [states EXCEPT ![s] = r.state]
    /\ call' = Called(proc, s, args, before, r)
    /\ hist' = [hist EXCEPT !.ncalls = @ + 1,
                            !.prev = IF call.proc = "none" THEN @
                                     ELSE [proc |-> call.proc, args |-> call.args,
                                           ret |-> call.ret,
                                           base |-> BytesValue(Load(call.before, call.args.src,
                                                                    arch.bytes),
                                                               arch.memory_endness)]]
    /\ UNCHANGED <<arch, live>>
    /\ UNCHANGED_instances

Mbsrtowcs(s) ==
    \E dest \in {0, WideBuf}, len \in ConvLens :
        LET before == Begin(states[s])
        IN ConvCalled("mbsrtowcs", s, [dest |-> dest, src |-> NarrowCell, len |-> len],
                      before, mbsrtowcs_run(before, dest, NarrowCell, len, 0))

Wcsrtombs(s) ==
    \E dest \in {0, NarrowBuf}, len \in ConvLens :
        LET before == Begin(states[s])
        IN ConvCalled("wcsrtombs", s, [dest |-> dest, src |-> WideCell, len |-> len],
                      before, wcsrtombs_run(before, dest, WideCell, len, 0))

NextConv ==
    \/ \E s \in live : Mbsrtowcs(s)
    \/ \E s \in live : Wcsrtombs(s)

SpecConv == InitConv /\ [][NextConv]_vars

--------------------------------------------------------------------------
(* Wide-string search: one state whose memory holds a wide string, null    *)
(* wide characters after it as far as a search can reach, and an accept set *)

\* "", "A", "B", "AB", "BA", "AA", one symbolic unit, "A" and a symbolic unit
WideStrings == {<<>>, <<65>>, <<66>>, <<65, 66>>, <<66, 65>>, <<65, 65>>,
                <<300>>, <<65, 300>>}

\* "", "A", "B", "AB", "BA", "CB", "C"
AcceptStrings == {<<>>, <<65>>, <<66>>, <<65, 66>>, <<66, 65>>, <<67, 66>>, <<67>>}

\* the wc arguments: null, "A", "B", "C" and a symbolic one
WideChars == {BVV(c, ArchBits) : c \in {0, 65, 66, 67}} \cup {BVSet({65, 66}, ArchBits)}

\* the bytes of memory from base on holding the units and then n null units
WideImageAt(base, units, n) ==
    [a \in AddrRange(base, (Len(units) + n) * WCHAR_BYTES) |->
        IF (a - base) \div WCHAR_BYTES < Len(units)
        THEN UnitBytes(units[((a - base) \div WCHAR_BYTES) + 1])[((a - base) % WCHAR_BYTES) + 1]
        ELSE 0]

InitWide ==
    /\ arch \in Archs
    /\ live = {1}
    /\ \E wcs \in WideStrings, accept \in AcceptStrings :
         /\ states = [s \in States |->
                        Begin([NewState(HeapBase) EXCEPT !.memory =
                                 WideImageAt(WcsBase, wcs, (max_null_index \div WCHAR_BYTES) + 2)
                                   @@ WideImageAt(AcceptBase, accept, 1)])]
         /\ hist = [NoHist EXCEPT !.wide = [wcs |-> wcs, accept |-> accept]]
    /\ InitInstances
    /\ call = NoCall

WideCalled(proc, s, args, before, r) ==
    /\ hist.ncalls < MaxWideCalls
    /\ states' = [states EXCEPT ![s] = r.state]
    /\ call' = Called(proc, s, args, before, r)
    /\ hist' = [hist EXCEPT !.ncalls = @ + 1]
    /\ UNCHANGED <<arch, live>>
    /\ UNCHANGED_instances

Wcschr(s) ==
    \E wc \in WideChars :
        LET before == Begin(states[s])
        IN WideCalled("wcschr", s, [wcs |-> WcsBase, wc |-> wc], before,
                      wcschr_run(before, WcsBase, wc))

Wcspbrk(s) ==
    LET before == Begin(states[s])
    IN WideCalled("wcspbrk", s, [wcs |-> WcsBase, accept |-> AcceptBase], before,
                  wcspbrk_run(before, WcsBase, AcceptBase))

NextWide ==
    \/ \E s \in live : Wcschr(s)
    \/ \E s \in live : Wcspbrk(s)

SpecWide == InitWide /\ [][NextWide]_vars

--------------------------------------------------------------------------
(* Wide formatted output: swprintf on one state *)

\* the maxlen arguments: 0 .. MaxSize and a symbolic one of 0 or 2
SwprintfLens == {BVV(n, ArchBits) : n \in 0..MaxSize} \cup {BVSet({0, 2}, ArchBits)}

InitSwprintf ==
    /\ arch \in Archs
    /\ live = {1}
    /\ states = [s \in States |-> NewState(HeapBase)]
    /\ hist = NoHist
    /\ InitInstances
    /\ call = NoCall

Swprintf(s) ==
    \E maxlen \in SwprintfLens :
        LET before == Begin(states[s])
            r == swprintf_run(before, WcsBase, maxlen, 0)
        IN /\ hist.ncalls < MaxCalls
           /\ states' = [states EXCEPT ![s] = r.state]
           /\ call' = Called("swprintf", s, [wcs_ptr |-> WcsBase, maxlen |-> maxlen],
                             before, r)
           /\ hist' = [hist EXCEPT !.ncalls = @ + 1]
           /\ UNCHANGED <<arch, live>>
           /\ UNCHANGED_instances

NextSwprintf == \E s \in live : Swprintf(s)

SpecSwprintf == InitSwprintf /\ [][NextSwprintf]_vars

--------------------------------------------------------------------------
(* Claims on bounded formatted output *)

ConcreteArg(bv) == Cardinality(bv.val) = 1

ValueOf(bv) == CHOOSE v \in bv.val : TRUE

\* the memory of the call's state outside the addresses it stored to
FrameKept(c) ==
    /\ DOMAIN c.after.memory = (DOMAIN c.before.memory) \cup c.after.log
    /\ \A a \in (DOMAIN c.before.memory) \ c.after.log :
          c.after.memory[a] = c.before.memory[a]

\* what the call left at addr .. addr + n - 1
Stored(c, addr, n) == [i \in 1..n |-> c.after.memory[addr + i - 1]]

\* C1: snprintf with a concrete capacity size >= 1 and a rendered output of
\* L bytes stores the first min(L, size - 1) bytes of the output at dst, one
\* null byte right after them, stores to no other address (so nothing at or
\* beyond dst + size), and returns min(L, size - 1) at architecture width.
C1_SnprintfTruncates ==
    (call.proc = "snprintf" /\ ConcreteArg(call.args.size)
       /\ ValueOf(call.args.size) >= 1) =>
      LET size == ValueOf(call.args.size)
          k == Min(Len(call.args.out_str), size - 1)
          dst == call.args.dst_ptr
      IN /\ call.after.log = AddrRange(dst, k + 1)
         /\ Stored(call, dst, k) = SubSeq(call.args.out_str, 1, k)
         /\ call.after.memory[dst + k] = 0
         /\ \A a \in call.after.log : a < dst + size
         /\ call.ret = BVV(k, ArchBits)
         /\ FrameKept(call)

\* a snprintf call whose output was cut: output longer than capacity - 1
C1_Witness ==
    /\ call.proc = "snprintf"
    /\ call.args.size.val = {2}
    /\ Len(call.args.out_str) = 3
    /\ call.after.memory[call.args.dst_ptr + 1] = 0

\* C2: snprintf with capacity 0 leaves the whole state as it was (memory,
\* heap, constraints; nothing stored) and returns the capacity argument.
C2_SnprintfZeroCapacity ==
    (call.proc = "snprintf" /\ call.args.size.val = {0}) =>
      /\ call.after = call.before
      /\ call.after.log = {}
      /\ call.after.added = <<>>
      /\ call.ret = call.args.size

\* a capacity-0 snprintf call with a non-empty rendered output
C2_Witness ==
    /\ call.proc = "snprintf"
    /\ call.args.size.val = {0}
    /\ Len(call.args.out_str) > 0
    /\ call.after.log = {}

\* C3: __snprintf_chk with declared size slen >= 1 stores at most slen - 1
\* output bytes at s, the null byte right after them at an offset below
\* slen, and nothing at or beyond s + slen.
C3_SnprintfChkWithinSlen ==
    (call.proc = "__snprintf_chk" /\ call.args.slen >= 1) =>
      LET slen == call.args.slen
          n == Cardinality(call.after.log) - 1
      IN /\ n <= slen - 1
         /\ call.after.log = AddrRange(call.args.s, n + 1)
         /\ call.after.memory[call.args.s + n] = 0
         /\ \A a \in call.after.log : a < call.args.s + slen

--------------------------------------------------------------------------
(* Claims on the lazy singletons and the signal table *)

\* C4: a call of a lazy-singleton summary that is not the first one against
\* its execution state returns the pointer the first one returned, allocates
\* nothing, stores nothing, and (getpwnam) leaves the record's pointer and
\* ID fields as the first call left them.
C4_SingletonLaterCalls ==
    (call.proc \in Singletons /\ hist.later) =>
      /\ call.ret = PtrOf(hist.first[call.proc][call.st])
      /\ call.after.mallocs = 0
      /\ call.after.log = {}
      /\ call.after = call.before
      /\ call.proc = "getpwnam" =>
            Load(call.after, call.ret, passwd_size) = hist.record[call.st]

\* a second getpwnam call in the state whose first call built the record
C4_Witness ==
    /\ call.proc = "getpwnam"
    /\ hist.later
    /\ call.ret \in call.after.allocated
    /\ call.ret = PtrOf(PASSWD_PTR)
    /\ Load(call.after, call.ret + 2 * arch.bytes, 8) = SymBytes32(1) \o SymBytes32(2)

\* C5: the pointer a lazy-singleton summary returns in an execution state
\* was allocated in that state's own memory (by it or by the state it was
\* forked from), never only in another state.
C5_SingletonNoAlias ==
    call.proc \in Singletons => call.ret \in call.after.allocated

\* C6: a signal call returns the handler of the most recent earlier call with
\* the same signal number, or -1 at architecture width if there was none;
\* afterwards the table maps the number to the new handler and the entries
\* of the other numbers are as before.
C6_SignalPrevious ==
    call.proc = "signal" =>
      LET n == Len(hist.sigLog)
          signum == hist.sigLog[n][1]
          earlier == {i \in 1..(n - 1) : hist.sigLog[i][1] = signum}
      IN /\ call.ret = IF earlier = {} THEN BVV(-1, ArchBits)
                       ELSE hist.sigLog[SetMax(earlier)][2]
         /\ DOMAIN SIG_HNDLR = (DOMAIN hist.sigBefore) \cup {signum}
         /\ SIG_HNDLR[signum] = hist.sigLog[n][2]
         /\ \A m \in (DOMAIN hist.sigBefore) \ {signum} :
               SIG_HNDLR[m] = hist.sigBefore[m]

\* a third signal call for the number of the first one, another number in
\* between, that returned the first call's handler
C6_Witness ==
    /\ call.proc = "signal"
    /\ Len(hist.sigLog) = 3
    /\ hist.sigLog[1][1] = hist.sigLog[3][1]
    /\ hist.sigLog[2][1] # hist.sigLog[3][1]
    /\ hist.sigLog[1][2] # hist.sigLog[3][2]
    /\ call.ret = hist.sigLog[1][2]

--------------------------------------------------------------------------
(* Claims on the environment lookup *)

\* the offset of the first "=" of an entry
EqualsAt(e) == CHOOSE i \in 1..Len(e) : e[i] = 61 /\ \A j \in 1..(i - 1) : e[j] # 61

\* the key of a KEY=VALUE entry: its text before the first "="
KeyOf(e) == SubSeq(e, 1, EqualsAt(e) - 1)

ConcreteEnv ==
    /\ ~symbolic(hist.env.name)
    /\ \A i \in 1..Len(hist.env.entries) : ~symbolic(hist.env.entries[i])

Matching == {i \in 1..Len(hist.env.entries) : KeyOf(hist.env.entries[i]) = hist.env.name}

C8_GetenvWalksWholeList ==
    (call.proc = "getenv"
       /\ (call.args.trace.name_sym \/ call.args.trace.widened > 0)) =>
      /\ ~call.args.trace.early
      /\ call.args.trace.examined = Len(hist.env.entries)
      /\ Len(call.after.added) = 1
      /\ Len(call.after.added[1].or) = call.args.trace.widened + 1

\* the lengths the string of entry e can have: up to its first byte that
\* can be null
EntryLens(e) == {l \in 0..Len(e) : l = Len(e) \/ IsSymbolicByte(e[l + 1])}

\* the lengths the key of entry e can have when its string has length l and
\* the key is the one looked up: the offsets below l of a byte that can be
\* the first "=", with the bytes before it able to spell the name
KeyLens(e, l) ==
    LET name == hist.env.name
    IN {k \in 0..(l - 1) :
          /\ e[k + 1] = 61 \/ IsSymbolicByte(e[k + 1])
          /\ \A j \in 1..k : e[j] # 61
          /\ k <= Len(name)
          /\ k = Len(name) \/ IsSymbolicByte(name[k + 1])
          /\ \A j \in 1..k : IsSymbolicByte(name[j]) \/ IsSymbolicByte(e[j]) \/ name[j] = e[j]}

\* whether the value v of the result satisfies the disjunction or when the
\* string of the entry at envp has length l
Satisfies(or, v, envp, l) ==
    \E n \in 1..Len(or) :
        IF or[n].zero THEN v = 0
        ELSE /\ or[n].lo < v
             /\ IF or[n].lo = envp THEN l \in or[n].len /\ v < envp + l
                ELSE \E m \in or[n].len : v < or[n].lo + m

\* C13: the one constraint getenv adds with its fresh symbolic result is
\* satisfied by 0 and, for every entry compared symbolically, by every
\* address the entry's value pointer can take (entry address + k + 1 for
\* each feasible key length k, an empty value included); with a concrete
\* list and key and no match it forces the result to 0.
C13_GetenvConstraint ==
    (call.proc = "getenv" /\ ~call.args.trace.early) =>
      /\ Len(call.after.added) = 1
      /\ LET or == call.after.added[1].or
         IN /\ Satisfies(or, 0, 0, 0)
            /\ \A i \in 1..Len(hist.env.entries) :
                 LET e == hist.env.entries[i]
                 IN (call.args.trace.name_sym \/ symbolic(e)) =>
                      \A l \in EntryLens(e) : \A k \in KeyLens(e, l) :
                          Satisfies(or, EntryAddr(i) + k + 1, EntryAddr(i), l)
            /\ (ConcreteEnv /\ Matching = {}) =>
                 \A v \in 0..(EntryAddr(MaxEnv + 1)) : Satisfies(or, v, 0, 0) => v = 0

--------------------------------------------------------------------------
(* Claims on the encoding converters *)

Converters == {"mbsrtowcs", "wcsrtombs"}

\* C9: in count-only mode (dest = 0) mbsrtowcs and wcsrtombs store nothing
\* through dest: the only memory they write is the source cursor at src.
C9_CountOnlyWritesCursorOnly ==
    (call.proc \in Converters /\ call.args.dest = 0) =>
      call.after.log = AddrRange(call.args.src, arch.bytes)

\* the width in bytes of a source unit of the call
UnitWidth(c) == IF c.proc = "mbsrtowcs" THEN 1 ELSE WCHAR_BYTES

\* the source base the call found in the cell at src
SrcBase(c) == BytesValue(Load(c.before, c.args.src, arch.bytes), arch.memory_endness)

\* the bytes of the i-th source unit (from 0) as the call found them
UnitAt(c, i) == Load(c.before, SrcBase(c) + (i * UnitWidth(c)), UnitWidth(c))

NullUnit(c, i) == \A k \in 1..UnitWidth(c) : UnitAt(c, i)[k] = 0

\* the number of units up to and including the first null unit, or the cap
\* min(1024, max(len)) when no null unit comes before it
UnitsToStop(c) ==
    LET cap == Min(max_dest_size, SetMax(c.args.len.val))
        nulls == {i \in 0..(cap - 1) : NullUnit(c, i)}
    IN IF nulls = {} THEN cap
       ELSE (CHOOSE i \in nulls : \A j \in nulls : i <= j) + 1

\* C10: on a source whose units up to the stop are concrete, mbsrtowcs and
\* wcsrtombs return the number of units up to and including the first null
\* unit, or min(1024, max(len)) if that comes first, and store back at src
\* the source base advanced by that count times the unit width (1 or 4).
C10_ConvertCountAndCursor ==
    call.proc \in Converters =>
      LET n == UnitsToStop(call)
      IN (\A i \in 0..(n - 1) : ~symbolic(UnitAt(call, i))) =>
           /\ call.ret = BVV(n, ArchBits)
           /\ BytesValue(Load(call.after, call.args.src, arch.bytes),
                         arch.memory_endness)
                = SrcBase(call) + (n * UnitWidth(call))

\* a wcsrtombs call on a source without a null that stopped at the cap of
\* 1024 wide characters
C10_Witness ==
    /\ call.proc = "wcsrtombs"
    /\ SetMax(call.args.len.val) > max_dest_size
    /\ call.ret = BVV(max_dest_size, ArchBits)
    /\ BytesValue(Load(call.after, WideCell, arch.bytes), arch.memory_endness)
         = WideBuf + (max_dest_size * WCHAR_BYTES)

\* the length, terminator included, of the narrow string at base in st if
\* its null is among its first cap bytes, else 0
NarrowLen(st, base, cap) ==
    LET nulls == {i \in 0..(cap - 1) : LoadByte(st, base + i) = 0}
    IN IF nulls = {} THEN 0
       ELSE (CHOOSE i \in nulls : \A j \in nulls : i <= j) + 1

\* a wcsrtombs call into a buffer that reads the wide buffer the call before
\* it, an mbsrtowcs call, wrote
RoundTrip ==
    /\ call.proc = "wcsrtombs"
    /\ call.args.dest # 0
    /\ hist.prev.proc = "mbsrtowcs"
    /\ hist.prev.args.dest # 0
    /\ SrcBase(call) = hist.prev.args.dest

\* C11: a concrete null-terminated narrow string of bytes below 0x80 whose
\* length with its terminator is at most min(len, 1024) in both calls comes
\* back byte for byte, terminator included, from mbsrtowcs into a wide
\* buffer followed by wcsrtombs from that buffer, on either endianness, and
\* both calls return the same count.
C11_RoundTrip ==
    RoundTrip =>
      LET n == NarrowLen(call.after, hist.prev.base,
                         Min(conv_len_val(call.args.len), conv_len_val(hist.prev.args.len)))
          text == Load(call.after, hist.prev.base, n)
      IN (n > 0 /\ \A i \in 1..n : text[i] < 128) =>
           /\ Load(call.after, call.args.dest, n) = text
           /\ call.ret = hist.prev.ret
           /\ call.ret = BVV(n, ArchBits)

\* the string "AA" went from the narrow source through the wide buffer to
\* the narrow buffer on a little-endian architecture
C11_Witness ==
    /\ RoundTrip
    /\ arch.memory_endness = "Iend_LE"
    /\ Load(call.after, hist.prev.base, 3) = <<65, 65, 0>>
    /\ Load(call.after, call.args.dest, 3) = <<65, 65, 0>>
    /\ call.ret = BVV(3, ArchBits)

\* the same on a big-endian architecture
C11_WitnessBE ==
    /\ RoundTrip
    /\ arch.memory_endness = "Iend_BE"
    /\ Load(call.after, hist.prev.base, 3) = <<65, 65, 0>>
    /\ Load(call.after, call.args.dest, 3) = <<65, 65, 0>>

--------------------------------------------------------------------------
(* Claims on the wide-string search *)

ConcreteWcs == \A k \in 1..Len(hist.wide.wcs) : hist.wide.wcs[k] < 256

\* C12: on a concrete null-terminated wide string and a concrete wide
\* character wcschr returns 0 or the address of the first wide character
\* of the string, terminator included, that equals the pattern; it returns
\* 0 exactly when there is none, and a non-zero result p has
\* p - wcs <= wcslen(wcs) * 4.
C12_WcschrFirstMatch ==
    (call.proc = "wcschr" /\ ConcreteWcs /\ ConcreteArg(call.args.wc)) =>
      LET units == Append(hist.wide.wcs, 0)
          at == {k \in 1..Len(units) : units[k] = ValueOf(call.args.wc)}
      IN /\ ConcreteArg(call.ret)
         /\ (ValueOf(call.ret) = 0) <=> (at = {})
         /\ at # {} => ValueOf(call.ret) = call.args.wcs + (WCHAR_BYTES * (SetMin(at) - 1))
         /\ ValueOf(call.ret) # 0 =>
              ValueOf(call.ret) - call.args.wcs <= Len(hist.wide.wcs) * WCHAR_BYTES

\* the accept characters that occur in the wide string, and where
AcceptedAt ==
    {k \in 1..Len(hist.wide.wcs) :
       \E j \in 1..Len(hist.wide.accept) : hist.wide.wcs[k] = hist.wide.accept[j]}

\* C14: on concrete wide strings wcspbrk returns the lowest address in wcs
\* holding a wide character of the accept set, whatever the order of the
\* characters in accept, and returns 0 only if no character of accept
\* occurs in wcs.
C14_WcspbrkLowestMatch ==
    (call.proc = "wcspbrk" /\ ConcreteWcs) =>
      /\ ConcreteArg(call.ret)
      /\ AcceptedAt # {} =>
           ValueOf(call.ret) = call.args.wcs + (WCHAR_BYTES * (SetMin(AcceptedAt) - 1))
      /\ ValueOf(call.ret) = 0 => AcceptedAt = {}

--------------------------------------------------------------------------
(* Claims on the wide formatted output *)

\* C15: swprintf stores only at addresses in [wcs_ptr, wcs_ptr + maxlen * 4),
\* the last wide character of that range is null when maxlen >= 1, nothing
\* is stored when maxlen = 0, and the symbolic count returned is constrained
\* to be at most maxlen.
C15_SwprintfInsideBuffer ==
    (call.proc = "swprintf" /\ ConcreteArg(call.args.maxlen)) =>
      LET maxlen == ValueOf(call.args.maxlen)
      IN /\ call.after.log \subseteq AddrRange(call.args.wcs_ptr, maxlen * WCHAR_BYTES)
         /\ maxlen >= 1 =>
              Load(call.after, call.args.wcs_ptr + ((maxlen - 1) * WCHAR_BYTES), WCHAR_BYTES)
                = <<0, 0, 0, 0>>
         /\ maxlen = 0 => call.after.log = {}
         /\ call.after.added = <<[ret |-> call.ret.sym, at_most |-> maxlen]>>

====
